---------------------------- MODULE Spec2Model ----------------------------
(***************************************************************************)
(* TripAnalyzer (src/analyzer.cpp): ingestFile, topZones, topBusySlots.    *)
(*                                                                         *)
(* A std::string / std::string_view is a sequence of byte values (ASCII    *)
(* codes); the source's 0-based positions are kept (At(s, i) is s[i]).     *)
(* An unordered_map is a function whose DOMAIN is its key set; its         *)
(* iteration order is unspecified and is drawn afresh by every query.      *)
(***************************************************************************)
EXTENDS Integers, Sequences, FiniteSets, TLC

VARIABLES
    zoneCountMap,   \* TripAnalyzer::zoneCountMap : zone -> long long
    slotCountMap,   \* TripAnalyzer::slotCountMap : zone -> vector<long long>
    pc,             \* "idle" (no call running) | "lines" (inside ingestFile's loop)
    line,           \* ingestFile's `line`: the data line last read by getline
    results,        \* the vector the last topZones / topBusySlots call returned
    op,             \* that call: [name |-> "none" | "topZones" | "topBusySlots", k |-> int]
    outcome,        \* how the last ingestFile call ended: "none" | "nofile" | "empty" | "eof"
    calls,          \* number of ingestFile calls made on this analyzer
    rowsRead,       \* data lines read by getline over the analyzer's lifetime
    accepted,       \* data lines of the current call that reached the aggregation
    rejected,       \* data lines of the current call that hit a `continue`
    freshZone,      \* zoneCountMap of a fresh analyzer fed the current call's file only
    freshSlot       \* slotCountMap of that fresh analyzer

vars == <<zoneCountMap, slotCountMap, pc, line, results, op, outcome, calls,
          rowsRead, accepted, rejected, freshZone, freshSlot>>

---------------------------------------------------------------------------
(* Bounds of the model *)

MaxRows == 3     \* data lines read over the analyzer's lifetime
MaxCalls == 2    \* ingestFile calls on one analyzer
MaxK == 3        \* largest k passed to a query (the smallest is -1)

---------------------------------------------------------------------------
(* Bytes and strings *)

npos == -1               \* std::string_view::npos: "not found", equal to no position
HoursPerDay == 24        \* hours.resize(24, 0) and the scan `h < 24`

Byte == [sp |-> 32, comma |-> 44, minus |-> 45, colon |-> 58, zero |-> 48, nine |-> 57]

At(s, i) == s[i + 1]

SetMin(S) == CHOOSE x \in S : \A y \in S : x <= y
SetMax(S) == CHOOSE x \in S : \A y \in S : x >= y

\* <cctype> in the "C" locale
isspace(c) == c \in {9, 10, 11, 12, 13, 32}
isdigit(c) == c >= Byte.zero /\ c <= Byte.nine

\* string_view::find(c, pos)
Find(s, c, pos) ==
    LET hits == {i \in pos..(Len(s) - 1) : At(s, i) = c}
    IN  IF hits = {} THEN npos ELSE SetMin(hits)

\* string_view::substr(pos, n) with pos + n <= size
Substr(s, pos, n) == SubSeq(s, pos + 1, pos + n)

\* trim without its second loop: trailing whitespace stays
trimLeading(s) ==
    LET start == SetMin({i \in 0..Len(s) : i = Len(s) \/ ~isspace(At(s, i))})
    IN  Substr(s, start, Len(s) - start)

\* static string_view trim(string_view s)
trim(s) ==
    LET start == SetMin({i \in 0..Len(s) : i = Len(s) \/ ~isspace(At(s, i))})
        end   == SetMax({j \in start..Len(s) : j = start \/ ~isspace(At(s, j - 1))})
    IN  Substr(s, start, end - start)

\* std::string operator< : lexicographic on unsigned bytes, a proper prefix first
StrLess(a, b) ==
    \E i \in 1..(Len(b)) :
        /\ \A j \in 1..(i - 1) : j <= Len(a) /\ a[j] = b[j]
        /\ i - 1 <= Len(a)
        /\ (i > Len(a) \/ a[i] < b[i])

---------------------------------------------------------------------------
(* extractHour *)

\* the while loop of extractHour: walk back over at most two digits
RECURSIVE ScanBack(_, _, _)
ScanBack(dt, start, digitCount) ==
    IF start < Len(dt) /\ isdigit(At(dt, start))
    THEN IF start = 0 \/ digitCount + 1 >= 2
         THEN start
         ELSE ScanBack(dt, start - 1, digitCount + 1)
    ELSE start

\* the for loop of extractHour: h = h * 10 + (dt[i] - '0') for i in [start, end)
RECURSIVE ParseInt(_, _, _, _)
ParseInt(dt, i, end, h) ==
    IF i < end THEN ParseInt(dt, i + 1, end, h * 10 + (At(dt, i) - Byte.zero)) ELSE h

\* static int extractHour(string_view dt)
extractHour(dt) ==
    LET colon == Find(dt, Byte.colon, 0)
    IN  IF colon = npos \/ colon = 0 THEN -1
        ELSE LET end    == colon
                 back   == ScanBack(dt, colon - 1, 0)
                 start  == IF ~isdigit(At(dt, back)) THEN back + 1 ELSE back
             IN  IF start >= end THEN -1
                 ELSE LET h == ParseInt(dt, start, end, 0)
                      IN  IF h >= 0 /\ h <= 23 THEN h ELSE -1

---------------------------------------------------------------------------
(* One row of ingestFile's loop: the checks that end in `continue` *)

Reject == [ok |-> FALSE, zone |-> <<>>, hour |-> -1]

\* the TripID check: every byte before comma1 is a digit
ValidTripID(row, comma1) == \A i \in 0..(comma1 - 1) : isdigit(At(row, i))

\* DropoffOk with the trim left out: a field of blanks passes
DropoffOkUntrimmed(row, comma2, comma3) ==
    Substr(row, comma2 + 1, comma3 - comma2 - 1) # <<>>

\* the drop-off check: the field between comma2 and comma3 is not blank
DropoffOk(row, comma2, comma3) ==
    trim(Substr(row, comma2 + 1, comma3 - comma2 - 1)) # <<>>

\* TrailingOk with the search for a fifth comma left out
TrailingOkAlways(row, comma4) == TRUE

\* the column check after the hour: a fifth comma must follow comma4
TrailingOk(row, comma4) == Find(row, Byte.comma, comma4 + 1) # npos

\* the row's (zone, hour), or Reject when any check fails
ParseLine(row) ==
    IF row = <<>> THEN Reject ELSE
    LET comma1 == Find(row, Byte.comma, 0) IN
    IF comma1 = npos THEN Reject ELSE
    IF ~ValidTripID(row, comma1) THEN Reject ELSE
    LET comma2 == Find(row, Byte.comma, comma1 + 1) IN
    IF comma2 = npos THEN Reject ELSE
    LET zoneIdView == trim(Substr(row, comma1 + 1, comma2 - comma1 - 1)) IN
    IF zoneIdView = <<>> THEN Reject ELSE
    LET comma3 == Find(row, Byte.comma, comma2 + 1) IN
    IF comma3 = npos THEN Reject ELSE
    IF ~DropoffOk(row, comma2, comma3) THEN Reject ELSE
    LET comma4 == Find(row, Byte.comma, comma3 + 1) IN
    IF comma4 = npos THEN Reject ELSE
    LET timeView == trim(Substr(row, comma3 + 1, comma4 - comma3 - 1)) IN
    IF timeView = <<>> THEN Reject ELSE
    LET hour == extractHour(timeView) IN
    IF hour = -1 THEN Reject ELSE
    IF ~TrailingOk(row, comma4) THEN Reject ELSE
    [ok |-> TRUE, zone |-> zoneIdView, hour |-> hour]

---------------------------------------------------------------------------
(* The aggregation: zoneCountMap[keyBuffer]++ and hours[hour]++ *)

EmptyMap == [z \in {} |-> 0]
EmptyVec == [h \in {} |-> 0]

Size(v) == Cardinality(DOMAIN v)

\* zoneCountMap[keyBuffer]++ : operator[] value-initialises a missing key to 0
ZoneIncrement(m, key) ==
    IF key \in DOMAIN m THEN [m EXCEPT ![key] = @ + 1] ELSE m @@ (key :> 1)

\* SlotIncrement storing 1 where it should add 1
SlotIncrementAssign(m, key, hour) ==
    LET found   == IF key \in DOMAIN m THEN m[key] ELSE EmptyVec
        resized == IF Size(found) = 0 THEN [h \in 0..(HoursPerDay - 1) |-> 0] ELSE found
        bumped  == [resized EXCEPT ![hour] = 1]
    IN  IF key \in DOMAIN m THEN [m EXCEPT ![key] = bumped] ELSE m @@ (key :> bumped)

\* hours = slotCountMap[keyBuffer]; if (hours.empty()) hours.resize(24, 0); hours[hour]++
SlotIncrement(m, key, hour) ==
    LET found   == IF key \in DOMAIN m THEN m[key] ELSE EmptyVec
        resized == IF Size(found) = 0 THEN [h \in 0..(HoursPerDay - 1) |-> 0] ELSE found
        bumped  == [resized EXCEPT ![hour] = @ + 1]
    IN  IF key \in DOMAIN m THEN [m EXCEPT ![key] = bumped] ELSE m @@ (key :> bumped)

---------------------------------------------------------------------------
(* Top-K selection *)

Min2(a, b) == IF a <= b THEN a ELSE b

\* every order in which an unordered_map may hand out the keys of S
Orders(S) ==
    {f \in [1..Cardinality(S) -> S] : \A i, j \in 1..Cardinality(S) : f[i] = f[j] => i = j}

RemoveAt(v, i) == SubSeq(v, 1, i - 1) \o SubSeq(v, i + 1, Len(v))

\* ZoneLess without its tie-break
ZoneLessCountOnly(a, b) == a.count > b.count

\* topZones' comparator: count descending, then zone ascending
ZoneLess(a, b) ==
    IF a.count # b.count THEN a.count > b.count ELSE StrLess(a.zone, b.zone)

\* topBusySlots' comparator: count descending, zone ascending, hour ascending
SlotLess(a, b) ==
    IF a.count # b.count THEN a.count > b.count
    ELSE IF a.zone # b.zone THEN StrLess(a.zone, b.zone)
    ELSE a.hour < b.hour

\* the comparator handed to partial_sort by topZones ("zone") or topBusySlots ("slot")
Less(cmp, a, b) == IF cmp = "zone" THEN ZoneLess(a, b) ELSE SlotLess(a, b)

\* std::partial_sort(first, first + n, last, less): the n least elements under `less`,
\* in order, at the front; between elements that `less` does not separate the one
\* that comes first in v is taken
PartialSort(v, n, cmp) ==
    LET sel[j \in 0..n] ==
            IF j = 0 THEN [out |-> <<>>, rest |-> v]
            ELSE LET p == sel[j - 1]
                     i == SetMin({a \in 1..Len(p.rest) :
                                    \A b \in 1..Len(p.rest) : ~Less(cmp, p.rest[b], p.rest[a])})
                 IN  [out |-> Append(p.out, p.rest[i]), rest |-> RemoveAt(p.rest, i)]
    IN  sel[n].out \o sel[n].rest

\* TripAnalyzer::topZones(k), the map iterated in `order`
topZones(m, order, k) ==
    LET flat == [i \in 1..Len(order) |-> [zone |-> order[i], count |-> m[order[i]]]]
    IN  IF k < 0 \/ flat = <<>> THEN <<>>
        ELSE LET topK == Min2(k, Len(flat))
             IN  SubSeq(PartialSort(flat, topK, "zone"), 1, topK)

\* SlotPresent without the test for a count above zero
SlotPresentAny(hours, h) == h < Size(hours)

\* the filter of topBusySlots' scan
SlotPresent(hours, h) == h < Size(hours) /\ hours[h] > 0

\* the (zone, hour, count) entries one zone contributes, hours ascending from h
RECURSIVE ZoneSlots(_, _, _)
ZoneSlots(zone, hours, h) ==
    IF h >= HoursPerDay THEN <<>>
    ELSE (IF SlotPresent(hours, h)
          THEN <<[zone |-> zone, hour |-> h, count |-> hours[h]]>>
          ELSE <<>>) \o ZoneSlots(zone, hours, h + 1)

\* the flattening loop of topBusySlots over the zones order[i..]
RECURSIVE FlattenSlots(_, _, _)
FlattenSlots(m, order, i) ==
    IF i > Len(order) THEN <<>>
    ELSE ZoneSlots(order[i], m[order[i]], 0) \o FlattenSlots(m, order, i + 1)

\* TripAnalyzer::topBusySlots(k), the map iterated in `order`
topBusySlots(m, order, k) ==
    LET flat == FlattenSlots(m, order, 1)
    IN  IF k <= 0 \/ flat = <<>> THEN <<>>
        ELSE LET topK == Min2(k, Len(flat))
             IN  SubSeq(PartialSort(flat, topK, "slot"), 1, topK)

---------------------------------------------------------------------------
(* Inputs *)

\* TripID fields
TripIds ==
    { <<49>>,                                 \* "1"
      <<49, 50>>,                             \* "12"
      <<>>,                                   \* ""
      <<120>> }   \* "x"

\* PickupZoneID fields
ZoneFields ==
    { <<65>>,                                 \* "A"
      <<66>>,                                 \* "B"
      <<97>>,                                 \* "a"
      <<65, 66>>,                             \* "AB"
      <<32, 65, 32>>,                         \* " A "
      <<90, 49>>,                             \* "Z1"
      <<32>>,                                 \* " "
      <<>> }   \* ""

\* DropoffZoneID fields
DropFields ==
    { <<68>>,                                 \* "D"
      <<69>>,                                 \* "E"
      <<32, 68>>,                             \* " D"
      <<32>>,                                 \* " "
      <<9>>,                                  \* a tab
      <<>> }   \* ""

\* PickupDateTime fields
TimeFields ==
    { <<48, 48, 58, 48, 48>>,                 \* "00:00"
      <<50, 51, 58, 53, 57>>,                 \* "23:59"
      <<50, 52, 58, 48, 48>>,                 \* "24:00"
      <<45, 49, 58, 48, 48>>,                 \* "-1:00"
      <<49, 48, 48, 48>>,                     \* "1000"
      <<>>,                                   \* ""
      <<49, 45, 49, 32, 49, 48, 58, 51, 48>>, \* "1-1 10:30"
      <<32, 57, 58, 49, 53, 32>>,             \* " 9:15 "
      <<58, 48, 48>>,                         \* ":00"
      <<120, 58, 48, 48>>,                    \* "x:00"
      <<49, 50, 51, 58, 48, 48>>,             \* "123:00"
      <<55, 58, 53, 58, 57>> }   \* "7:5:9"

\* what follows the PickupDateTime field: nothing, or fields each led by a comma
Tails ==
    { <<>>,                        \* ""
      <<44, 53>>,                  \* ",5"
      <<44>>,                      \* ","
      <<44, 53, 44, 55>>,          \* ",5,7"
      <<44, 44>>,                  \* ",,"
      <<44, 53, 44, 55, 44, 56>> } \* ",5,7,8"

Comma == <<Byte.comma>>

\* rows in the six-column layout of the schema comment, and its truncations
SchemaRows ==
    {i \o Comma \o z \o Comma \o d \o Comma \o t \o tl :
        i \in TripIds, z \in ZoneFields, d \in DropFields, t \in TimeFields, tl \in Tails}

\* rows in the three-column layout TripID,PickupZoneID,PickupTime
ThreeFieldRows ==
    {i \o Comma \o z \o Comma \o t : i \in TripIds, z \in ZoneFields, t \in TimeFields}

\* rows that end before the third field, and the empty line
ShortRows ==
    {<<>>} \cup TripIds \cup {i \o Comma \o z : i \in TripIds, z \in ZoneFields}

AllRows == SchemaRows \cup ThreeFieldRows \cup ShortRows

\* the data lines of the files fed to a long-lived analyzer:
\*   "1,A,D,00:00,5,7"
\*   "1,A,D,23:59,5,7"
\*   "2,B,E,1-1 23:59,5,7"
\*   "3, a ,D,00:00,,"
\*   "1,A,D,24:00,5,7"
\*   "1,A,00:00"
FileLines ==
    { <<49, 44, 65, 44, 68, 44, 48, 48, 58, 48, 48, 44, 53, 44, 55>>,
      <<49, 44, 65, 44, 68, 44, 50, 51, 58, 53, 57, 44, 53, 44, 55>>,
      <<50, 44, 66, 44, 69, 44, 49, 45, 49, 32, 50, 51, 58, 53, 57, 44, 53, 44, 55>>,
      <<51, 44, 32, 97, 32, 44, 68, 44, 48, 48, 58, 48, 48, 44, 44>>,
      <<49, 44, 65, 44, 68, 44, 50, 52, 58, 48, 48, 44, 53, 44, 55>>,
      <<49, 44, 65, 44, 48, 48, 58, 48, 48>> }

\* header lines: skipped unread, whatever they hold
Headers ==
    { <<84, 114, 105, 112, 73, 68, 44, 80, 105, 99, 107, 117, 112, 90, 111, 110, 101, 73, 68>>,\* "TripID,PickupZoneID"
      <<49, 44, 65, 44, 68, 44, 48, 48, 58, 48, 48, 44, 53, 44, 55>> }   \* "1,A,D,00:00,5,7"

KSet == (-1)..MaxK

---------------------------------------------------------------------------
(* The analyzer *)

NoOp == [name |-> "none", k |-> 0]

\* a default-constructed TripAnalyzer
Init ==
    /\ zoneCountMap = EmptyMap
    /\ slotCountMap = EmptyMap
    /\ pc = "idle"
    /\ line = <<>>
    /\ results = <<>>
    /\ op = NoOp
    /\ outcome = "none"
    /\ calls = 0
    /\ rowsRead = 0
    /\ accepted = 0
    /\ rejected = 0
    /\ freshZone = EmptyMap
    /\ freshSlot = EmptyMap

\* what every ingestFile call does on entry; the reserve() calls change no count
EnterIngest ==
    /\ pc = "idle"
    /\ calls < MaxCalls
    /\ calls' = calls + 1
    /\ accepted' = 0
    /\ rejected' = 0
    /\ freshZone' = EmptyMap
    /\ freshSlot' = EmptyMap
    /\ results' = <<>>
    /\ op' = NoOp
    /\ UNCHANGED <<zoneCountMap, slotCountMap, rowsRead>>

\* ingestFile: the file cannot be opened, `return` after the message
IngestOpenFail ==
    /\ EnterIngest
    /\ pc' = "idle"
    /\ outcome' = "nofile"
    /\ line' = <<>>

\* ingestFile: the file holds no line at all, the header getline fails
IngestEmptyFile ==
    /\ EnterIngest
    /\ pc' = "idle"
    /\ outcome' = "empty"
    /\ line' = <<>>

\* ingestFile: the file opens and its first line is read and skipped
IngestHeader ==
    /\ EnterIngest
    /\ pc' = "lines"
    /\ outcome' = "none"
    /\ \E h \in Headers : line' = h

\* ProcessRow with zoneCountMap[keyBuffer]++ moved up to the zone check, ahead of the
\* drop-off, hour and column checks: a row those turn down still bumps its zone
ProcessRowZoneFirst(l) ==
    LET r      == ParseLine(l)
        comma1 == Find(l, Byte.comma, 0)
        comma2 == IF comma1 = npos THEN npos ELSE Find(l, Byte.comma, comma1 + 1)
        zone   == IF comma2 = npos THEN <<>>
                  ELSE trim(Substr(l, comma1 + 1, comma2 - comma1 - 1))
        early  == comma2 # npos /\ ValidTripID(l, comma1) /\ zone # <<>>
    IN  /\ line' = l
        /\ rowsRead' = rowsRead + 1
        /\ IF r.ok
           THEN /\ zoneCountMap' = ZoneIncrement(zoneCountMap, r.zone)
                /\ slotCountMap' = SlotIncrement(slotCountMap, r.zone, r.hour)
                /\ freshZone' = ZoneIncrement(freshZone, r.zone)
                /\ freshSlot' = SlotIncrement(freshSlot, r.zone, r.hour)
                /\ accepted' = accepted + 1
                /\ UNCHANGED rejected
           ELSE /\ rejected' = rejected + 1
                /\ zoneCountMap' = IF early THEN ZoneIncrement(zoneCountMap, zone)
                                   ELSE zoneCountMap
                /\ UNCHANGED <<slotCountMap, freshZone, freshSlot, accepted>>
        /\ UNCHANGED <<pc, results, op, outcome, calls>>

\* one pass of the while loop over the data line l
ProcessRow(l) ==
    LET r == ParseLine(l)
    IN  /\ line' = l
        /\ rowsRead' = rowsRead + 1
        /\ IF r.ok
           THEN /\ zoneCountMap' = ZoneIncrement(zoneCountMap, r.zone)
                /\ slotCountMap' = SlotIncrement(slotCountMap, r.zone, r.hour)
                /\ freshZone' = ZoneIncrement(freshZone, r.zone)
                /\ freshSlot' = SlotIncrement(freshSlot, r.zone, r.hour)
                /\ accepted' = accepted + 1
                /\ UNCHANGED rejected
           ELSE /\ rejected' = rejected + 1
                /\ UNCHANGED <<zoneCountMap, slotCountMap, freshZone, freshSlot, accepted>>
        /\ UNCHANGED <<pc, results, op, outcome, calls>>

\* ingestFile: getline reads the next data line of the file
IngestLine ==
    /\ pc = "lines"
    /\ rowsRead < MaxRows
    /\ \E l \in FileLines : ProcessRow(l)

\* ingestFile: getline fails at the end of the file and the call returns
IngestEof ==
    /\ pc = "lines"
    /\ pc' = "idle"
    /\ outcome' = "eof"
    /\ line' = <<>>
    /\ UNCHANGED <<zoneCountMap, slotCountMap, results, op, calls, rowsRead,
                   accepted, rejected, freshZone, freshSlot>>

\* a call of topZones(k)
TopZones ==
    /\ pc = "idle"
    /\ \E k \in KSet, order \in Orders(DOMAIN zoneCountMap) :
          /\ results' = topZones(zoneCountMap, order, k)
          /\ op' = [name |-> "topZones", k |-> k]
    /\ UNCHANGED <<zoneCountMap, slotCountMap, pc, line, outcome, calls, rowsRead,
                   accepted, rejected, freshZone, freshSlot>>

\* a call of topBusySlots(k)
TopBusySlots ==
    /\ pc = "idle"
    /\ \E k \in KSet, order \in Orders(DOMAIN slotCountMap) :
          /\ results' = topBusySlots(slotCountMap, order, k)
          /\ op' = [name |-> "topBusySlots", k |-> k]
    /\ UNCHANGED <<zoneCountMap, slotCountMap, pc, line, outcome, calls, rowsRead,
                   accepted, rejected, freshZone, freshSlot>>

Next ==
    \/ IngestOpenFail
    \/ IngestEmptyFile
    \/ IngestHeader
    \/ IngestLine
    \/ IngestEof
    \/ TopZones
    \/ TopBusySlots

Spec == Init /\ [][Next]_vars

(***************************************************************************)
(* The row checks alone: a fresh analyzer has skipped the header of its    *)
(* first file and reads one data line, drawn from every combination of the *)
(* field values above.                                                     *)
(***************************************************************************)
InitRow ==
    /\ zoneCountMap = EmptyMap
    /\ slotCountMap = EmptyMap
    /\ pc = "lines"
    /\ line \in Headers
    /\ results = <<>>
    /\ op = NoOp
    /\ outcome = "none"
    /\ calls = 1
    /\ rowsRead = 0
    /\ accepted = 0
    /\ rejected = 0
    /\ freshZone = EmptyMap
    /\ freshSlot = EmptyMap

\* ingestFile: getline reads the first data line
IngestFirstLine ==
    /\ pc = "lines"
    /\ rowsRead = 0
    /\ \E l \in AllRows : ProcessRow(l)

NextRow ==
    \/ IngestFirstLine
    \/ IngestEof

SpecRow == InitRow /\ [][NextRow]_vars

---------------------------------------------------------------------------
(* Vocabulary of the properties, stated apart from the operators above *)

RECURSIVE SumOver(_, _)
SumOver(f, S) ==
    IF S = {} THEN 0
    ELSE LET x == CHOOSE y \in S : TRUE IN f[x] + SumOver(f, S \ {x})

\* the sum of every count a map or a vector holds
Total(f) == SumOver(f, DOMAIN f)

\* byte-lexicographic order on strings
RECURSIVE LexBefore(_, _)
LexBefore(a, b) ==
    IF b = <<>> THEN FALSE
    ELSE IF a = <<>> THEN TRUE
    ELSE IF Head(a) # Head(b) THEN Head(a) < Head(b)
    ELSE LexBefore(Tail(a), Tail(b))

Hours == 0..23

\* the zone totals the analyzer holds
ZoneEntries == {[zone |-> z, count |-> zoneCountMap[z]] : z \in DOMAIN zoneCountMap}

\* the ranking of zone totals: count descending, then zone ascending
ZoneBefore(a, b) ==
    a.count > b.count \/ (a.count = b.count /\ LexBefore(a.zone, b.zone))

\* the (zone, hour) slots with a count above zero
SlotEntries ==
    {e \in [zone : DOMAIN slotCountMap, hour : Hours, count : 1..MaxRows] :
        e.hour \in DOMAIN slotCountMap[e.zone] /\ slotCountMap[e.zone][e.hour] = e.count}

\* the ranking of slots: count descending, then zone ascending, then hour ascending
SlotBefore(a, b) ==
    \/ a.count > b.count
    \/ a.count = b.count /\ LexBefore(a.zone, b.zone)
    \/ a.count = b.count /\ a.zone = b.zone /\ a.hour < b.hour

\* v holds exactly the first n zone totals in the ranking
IsRankedZonePrefix(v, n) ==
    /\ Len(v) = n
    /\ \A i \in 1..n :
          /\ v[i] \in ZoneEntries
          /\ Cardinality({e \in ZoneEntries : ZoneBefore(e, v[i])}) = i - 1

\* v holds exactly the first n slots in the ranking
IsRankedSlotPrefix(v, n) ==
    /\ Len(v) = n
    /\ \A i \in 1..n :
          /\ v[i] \in SlotEntries
          /\ Cardinality({e \in SlotEntries : SlotBefore(e, v[i])}) = i - 1

\* ingestFile is in its loop and `line` is the first data line, just processed
FirstRowRead == pc = "lines" /\ rowsRead = 1

\* the step just taken read a data line
ReadsRow == rowsRead' = rowsRead + 1

---------------------------------------------------------------------------
(* C1: malformed rows are absorbed. A step that reads a rejected line      *)
(* leaves both count maps as they were and stays in the loop; a step that  *)
(* reads an accepted line adds exactly one to the sum of the zone counts;  *)
(* every line read is either accepted or rejected; and after the first     *)
(* ingestFile of an analyzer the zone counts sum to the accepted rows.     *)
C1_MalformedRowsAbsorbed ==
    /\ [][ReadsRow /\ ~ParseLine(line').ok =>
            /\ UNCHANGED <<zoneCountMap, slotCountMap>>
            /\ rejected' = rejected + 1
            /\ pc' = "lines"]_vars
    /\ [][ReadsRow /\ ParseLine(line').ok =>
            /\ Total(zoneCountMap') = Total(zoneCountMap) + 1
            /\ accepted' = accepted + 1]_vars
    /\ [](calls = 1 => /\ accepted + rejected = rowsRead
                       /\ Total(zoneCountMap) = accepted)

\* C1's case: an accepted row is counted after an earlier row was rejected
C1_Witness ==
    /\ calls = 1 /\ pc = "lines"
    /\ rejected >= 1 /\ accepted >= 2
    /\ ParseLine(line).ok
    /\ Total(zoneCountMap) = accepted

(* C2: in every reachable state the two maps hold the same zones, every    *)
(* zone's 24 slot counts sum to its zone total, and every total is >= 1.   *)
C2_SlotSumsMatchZoneTotals ==
    /\ DOMAIN zoneCountMap = DOMAIN slotCountMap
    /\ \A z \in DOMAIN zoneCountMap :
          /\ DOMAIN slotCountMap[z] = Hours
          /\ SumOver(slotCountMap[z], Hours) = zoneCountMap[z]
          /\ zoneCountMap[z] >= 1

\* C2's case: after a second ingestFile a zone has trips in two hours, one of them hit twice
C2_Witness ==
    /\ calls = 2
    /\ \E z \in DOMAIN zoneCountMap :
          /\ zoneCountMap[z] = 3
          /\ \E h1, h2 \in Hours : slotCountMap[z][h1] = 2 /\ slotCountMap[z][h2] = 1

(* C3: topZones(k) returns nothing for k < 0 and otherwise the first       *)
(* min(k, number of zones) zone totals ranked by count descending, then    *)
(* zone ascending in byte order, whatever order the map iterates in.       *)
C3_TopZonesRanked ==
    op.name = "topZones" =>
        IsRankedZonePrefix(results,
                           IF op.k < 0 THEN 0 ELSE Min2(op.k, Cardinality(ZoneEntries)))

\* C3's case: k cuts the list, and two zones with equal counts are returned in zone order
C3_Witness ==
    /\ op.name = "topZones" /\ op.k = 2
    /\ Cardinality(ZoneEntries) = 3
    /\ Len(results) = 2
    /\ results[1].count = results[2].count
    /\ LexBefore(results[1].zone, results[2].zone)

(* C4: topBusySlots(k) returns nothing for k <= 0 and otherwise the first  *)
(* min(k, number of slots with a count above zero) such slots ranked by    *)
(* count descending, zone ascending, hour ascending; no slot of count 0.   *)
C4_TopBusySlotsRanked ==
    op.name = "topBusySlots" =>
        /\ IsRankedSlotPrefix(results,
                              IF op.k <= 0 THEN 0 ELSE Min2(op.k, Cardinality(SlotEntries)))
        /\ \A i \in 1..Len(results) : results[i].count > 0

\* C4's case: k exceeds the slots in use, and one zone's equal slots come in hour order
C4_Witness ==
    /\ op.name = "topBusySlots" /\ op.k = 3
    /\ Len(results) = 2
    /\ results[1].zone = results[2].zone
    /\ results[1].count = results[2].count
    /\ results[1].hour < results[2].hour

---------------------------------------------------------------------------
(* Rows by their fields *)

\* the row TripID,PickupZoneID,DropoffZoneID,PickupDateTime followed by tl
Row(i, z, d, t, tl) == i \o Comma \o z \o Comma \o d \o Comma \o t \o tl

\* the row TripID,PickupZoneID,PickupTime
Row3(i, z, t) == i \o Comma \o z \o Comma \o t

CommaCount(s) == Cardinality({j \in 1..Len(s) : s[j] = 44})

\* ASCII whitespace: tab, line feed, vertical tab, form feed, carriage return, space
WhiteSpace == {9, 10, 11, 12, 13, 32}

\* some byte of the field is not whitespace
NonBlank(f) == \E j \in 1..Len(f) : f[j] \notin WhiteSpace

\* the field without its whitespace (no field above has whitespace inside)
Strip(f) == SelectSeq(f, LAMBDA c : c \notin WhiteSpace)

\* the position of the n-th comma of s
NthComma(s, n) ==
    CHOOSE j \in 1..Len(s) : s[j] = 44 /\ Cardinality({m \in 1..j : s[m] = 44}) = n

\* the third field of a row with three commas or more
DropoffOf(s) == SubSeq(s, NthComma(s, 2) + 1, NthComma(s, 3) - 1)

\* that row with d as its third field and every other byte as it was
WithDropoff(s, d) ==
    SubSeq(s, 1, NthComma(s, 2)) \o d \o SubSeq(s, NthComma(s, 3), Len(s))

\* the analyzer, having read one row, decided as ParseLine's result r says
SameDecision(r) ==
    /\ r.ok <=> accepted = 1
    /\ r.ok => (DOMAIN zoneCountMap = {r.zone} /\ slotCountMap[r.zone][r.hour] = 1)
    /\ ~r.ok => DOMAIN zoneCountMap = {}

\* TripID fields made of digits only
DigitIds == {i \in TripIds : \A j \in 1..Len(i) : i[j] \in 48..57}

\* timestamps with a well-formed hour, and that hour
ClockTimes ==
    { [t |-> <<48, 48, 58, 48, 48>>, hour |-> 0],                       \* "00:00"
      [t |-> <<50, 51, 58, 53, 57>>, hour |-> 23],                      \* "23:59"
      [t |-> <<49, 45, 49, 32, 49, 48, 58, 51, 48>>, hour |-> 10],      \* "1-1 10:30"
      [t |-> <<32, 57, 58, 49, 53, 32>>, hour |-> 9] }                  \* " 9:15 "

\* timestamps the hour rule turns down: "24:00", "-1:00", "" and "1000" (no colon)
BadTimes ==
    { <<50, 52, 58, 48, 48>>, <<45, 49, 58, 48, 48>>, <<>>, <<49, 48, 48, 48>> }

\* a tail that adds two or more commas: the row has five commas at least
LongTails == {tl \in Tails : CommaCount(tl) >= 2}

\* a tail that adds exactly one comma: the row has the five fields and no more
OneFieldTails == {tl \in Tails : CommaCount(tl) = 1}

\* the analyzer holds exactly one trip, in zone z at hour h
HoldsOnly(z, h) ==
    /\ DOMAIN zoneCountMap = {z} /\ zoneCountMap[z] = 1
    /\ DOMAIN slotCountMap = {z}
    /\ \A g \in Hours : slotCountMap[z][g] = (IF g = h THEN 1 ELSE 0)

HoldsNothing == DOMAIN zoneCountMap = {} /\ DOMAIN slotCountMap = {}

---------------------------------------------------------------------------
(* C5: the hour rule on a row whose other fields are in order. "00:00"     *)
(* counts the row at hour 0 and "23:59" at hour 23; "24:00", "-1:00", an   *)
(* empty timestamp and one with no colon count nothing; a counted hour is  *)
(* within 0..23.                                                           *)
C5_HourBoundaries ==
    FirstRowRead =>
        \A z \in {<<65>>}, d \in {<<68>>}, tl \in LongTails :
            /\ line = Row(<<49>>, z, d, <<48, 48, 58, 48, 48>>, tl) => HoldsOnly(z, 0)
            /\ line = Row(<<49>>, z, d, <<50, 51, 58, 53, 57>>, tl) => HoldsOnly(z, 23)
            /\ \A t \in BadTimes :
                  line = Row(<<49>>, z, d, t, tl) => HoldsNothing /\ extractHour(trim(t)) = -1

(* C6: a second ingestFile replaces the earlier aggregation: once it has   *)
(* returned, the maps are those of a fresh analyzer fed the last file.     *)
C6_SecondIngestReplaces ==
    (pc = "idle" /\ calls >= 2 /\ outcome = "eof") =>
        zoneCountMap = freshZone /\ slotCountMap = freshSlot

(* C7: after an ingestFile whose source could not be opened, or was fully  *)
(* empty, or held a header only, the analyzer holds nothing and both       *)
(* queries return nothing, whatever it held before.                        *)
C7_UnreadableSourceLeavesEmpty ==
    (pc = "idle" /\ (outcome \in {"nofile", "empty"}
                     \/ (outcome = "eof" /\ accepted + rejected = 0))) =>
        /\ HoldsNothing
        /\ op.name # "none" => results = <<>>

(* C8: a three-field row TripID,PickupZoneID,PickupTime with a digit       *)
(* TripID, a zone that is not blank and an hour HH in 00..23 is counted    *)
(* once under its trimmed zone and HH.                                     *)
C8_ThreeFieldRowCounted ==
    FirstRowRead =>
        \A i \in DigitIds \ {<<>>}, z \in ZoneFields, c \in ClockTimes :
            (NonBlank(z) /\ line = Row3(i, z, c.t)) => HoldsOnly(Strip(z), c.hour)

---------------------------------------------------------------------------
(***************************************************************************)
(* Zone keys: a fresh analyzer has skipped the header of its first file    *)
(* and reads data lines that are in order but for their pickup-zone field, *)
(* which varies in case and in the whitespace around and inside it; the    *)
(* queries follow the return.                                              *)
(***************************************************************************)

\* PickupZoneID fields: "A", "a", " A ", tab "a", "A a", " "
KeyZoneFields ==
    { <<65>>, <<97>>, <<32, 65, 32>>, <<9, 97>>, <<65, 32, 97>>, <<32>> }

\* the rows 1,<zone>,D,00:00,5,7 and 1,<zone>,D,23:59,5,7
KeyRows ==
    {<<49>> \o Comma \o z \o Comma \o <<68>> \o Comma \o t \o <<44, 53, 44, 55>> :
        z \in KeyZoneFields, t \in {<<48, 48, 58, 48, 48>>, <<50, 51, 58, 53, 57>>}}

\* ingestFile: getline reads the next data line of such a file
IngestKeyLine ==
    /\ pc = "lines"
    /\ rowsRead < MaxRows
    /\ \E l \in KeyRows : ProcessRow(l)

NextKey ==
    \/ IngestKeyLine
    \/ IngestEof
    \/ TopZones
    \/ TopBusySlots

SpecKey == InitRow /\ [][NextKey]_vars

\* the second field of a row with two commas or more
ZoneFieldOf(s) == SubSeq(s, NthComma(s, 1) + 1, NthComma(s, 2) - 1)

\* the field without the whitespace at its two ends; what lies between is kept
RECURSIVE StripEnds(_)
StripEnds(f) ==
    IF f = <<>> THEN f
    ELSE IF Head(f) \in WhiteSpace THEN StripEnds(Tail(f))
    ELSE IF f[Len(f)] \in WhiteSpace THEN StripEnds(SubSeq(f, 1, Len(f) - 1))
    ELSE f

\* the count a map holds for a zone, 0 when the zone has no entry
CountOf(m, z) == IF z \in DOMAIN m THEN m[z] ELSE 0

\* the trips a slot map holds for a zone over all hours, 0 when the zone has no entry
SlotTotalOf(m, z) == IF z \in DOMAIN m THEN SumOver(m[z], Hours) ELSE 0

\* the step added one trip to the entry `key` of both maps and touched no other entry
BumpsOnly(key) ==
    /\ DOMAIN zoneCountMap' = DOMAIN zoneCountMap \cup {key}
    /\ DOMAIN slotCountMap' = DOMAIN slotCountMap \cup {key}
    /\ \A z \in DOMAIN zoneCountMap' :
          /\ zoneCountMap'[z] = CountOf(zoneCountMap, z) + (IF z = key THEN 1 ELSE 0)
          /\ SlotTotalOf(slotCountMap', z)
                = SlotTotalOf(slotCountMap, z) + (IF z = key THEN 1 ELSE 0)

\* the zones a returned list names
ZonesIn(v) == {v[i].zone : i \in 1..Len(v)}

(* C11: zone key identity. A row whose pickup-zone field is not all        *)
(* whitespace is counted under exactly the entry whose key is that field   *)
(* without its surrounding whitespace, bytes and case as they are, so two  *)
(* rows share an entry iff those stripped fields are byte-identical; a     *)
(* row whose pickup-zone field is all whitespace is rejected; and a query  *)
(* with k large enough returns one entry per distinct key, keys that       *)
(* differ in case included, from topZones and from topBusySlots.           *)
C11_ZoneKeyIdentity ==
    /\ [][ReadsRow =>
            IF NonBlank(ZoneFieldOf(line'))
            THEN BumpsOnly(StripEnds(ZoneFieldOf(line')))
            ELSE UNCHANGED <<zoneCountMap, slotCountMap>> /\ rejected' = rejected + 1]_vars
    /\ []((op.name = "topZones" /\ op.k >= Cardinality(DOMAIN zoneCountMap)) =>
            /\ ZonesIn(results) = DOMAIN zoneCountMap
            /\ Len(results) = Cardinality(DOMAIN zoneCountMap))
    /\ []((op.name = "topBusySlots" /\ op.k >= Cardinality(SlotEntries)) =>
            ZonesIn(results) = DOMAIN slotCountMap)

\* C11's case: the row with zone field " A " lands on the entry "A", which now holds two
\* trips, while "a" and "A a" have entries of their own
C11_Witness ==
    /\ pc = "lines"
    /\ rowsRead = MaxRows
    /\ ZoneFieldOf(line) = <<32, 65, 32>>
    /\ DOMAIN zoneCountMap = {<<65>>, <<97>>}
    /\ zoneCountMap[<<65>>] = 2
    /\ zoneCountMap[<<97>>] = 1

====
